---- MODULE Spec2Model ----
(***************************************************************************)
(* A model of elm-bench (src/index.mjs): the script that copies N          *)
(* candidate Elm projects into one temporary project, merges their         *)
(* elm.json dependencies, compiles and runs the benchmark program and       *)
(* prints the comparison.                                                   *)
(*                                                                          *)
(* Text is modelled as a sequence of chunks (TLA+ strings).  A directory    *)
(* name given on the command line is chunked per character, because         *)
(* capitalize() and path.relative() look at single characters; Elm          *)
(* identifiers, keywords, punctuation and white space are one chunk each.   *)
(* Two texts are equal as JavaScript strings exactly when their chunk       *)
(* sequences are equal: directory letters never occur inside identifiers.   *)
(***************************************************************************)
EXTENDS Integers, Sequences, FiniteSets, TLC

\* ------------------------------------------------------------------ bounds
\* Largest number of -v options on the command line.
MaxCandidates == 2

\* Versions of a package are 1.m.0 with m in 9..MaxMinor (so that both
\* one-digit and two-digit components occur).
MaxMinor == 10

\* Largest number of argument expressions on the command line.
MaxArgs == 1

\* Largest number of candidates, and so of measurements, in the specification
\* of the report.
MaxMeasured == 3

\* ------------------------------------------------------------------ text
Letters == {"o", "O", "n"}

\* String.prototype.toUpperCase on one character.
toUpperCase(c) ==
    CASE c = "o" -> "O"
      [] c = "n" -> "N"
      [] OTHER -> c

\* const capitalize = (str) => str.charAt(0).toUpperCase() + str.slice(1);
capitalize(str) ==
    IF str = <<>> THEN <<>> ELSE <<toUpperCase(Head(str))>> \o Tail(str)

\* The directory names the model passes with -v: a letter, or "./" letter.
DirNames == {<<l>> : l \in Letters}

DisplayNames == DirNames \cup {<<".", "/">> \o d : d \in DirNames}

\* path.relative(".", version) on the strings of DisplayNames: a leading
\* "./" is dropped.
relative(version) ==
    IF Len(version) >= 2 /\ version[1] = "." /\ version[2] = "/"
    THEN SubSeq(version, 3, Len(version))
    ELSE version

\* path.join(a, b)
join(a, b) == a \o <<"/">> \o b

cwd == <<"/", "cwd">>

\* What the operating system does with a path given to fs.readFile,
\* fs.readdir or fs.writeFile: a relative path is taken from the working
\* directory.
Abs(p) == IF p # <<>> /\ Head(p) = "/" THEN p ELSE join(cwd, p)

\* path.resolve(dir, name) for a relative dir
resolve(dir, name) == join(Abs(dir), name)

StartsWith(s, prefix) ==
    /\ Len(s) >= Len(prefix)
    /\ SubSeq(s, 1, Len(prefix)) = prefix

\* const tempDir = await fs.mkdtemp(path.join(os.tmpdir(), "elm-bench-"));
tempDir == <<"/", "tmp", "/", "elm-bench-">>

InTempDir(p) == StartsWith(p, tempDir \o <<"/">>)

\* ------------------------------------------------------------------ candidate sources
\* The source files a candidate's src/ directory may hold, as paths relative
\* to src/, in the order fs.readdir lists them.
MainRel == <<"Main", ".elm">>

HelperRel == <<"Helper", ".elm">>

SubHelperRel == <<"Sub", "/", "Helper", ".elm">>

PoolOrder == <<HelperRel, MainRel, SubHelperRel>>

\* Two more source files, whose names end in "Main.elm" as the entry module's
\* does, and all five in the order fs.readdir lists them.
NestedMainRel == <<"Sub", "/", "Main", ".elm">>

SubMainRel == <<"SubMain", ".elm">>

ReaddirOrder == <<HelperRel, MainRel, SubHelperRel, NestedMainRel, SubMainRel>>

Pool == {PoolOrder[k] : k \in 1..Len(PoolOrder)}

\* The text of each source file as the candidate's author wrote it: the
\* module declaration line and the import lines.
SourceContent(rel) ==
    CASE rel = MainRel ->
           [kind |-> "elm",
            decl |-> <<"module", " ", "Main", " ", "exposing", " ", "(", "main, remove", ")">>,
            imports |-> << <<"import", " ", "Html", " ", "exposing", " ", "(", "text", ")">>,
                           <<"import", " ", "Helper">>,
                           <<"import", " ", "Sub", ".", "Helper">> >>]
      [] rel = HelperRel ->
           [kind |-> "elm",
            decl |-> <<"module", " ", "Helper", " ", "exposing", " ", "(", "help", ")">>,
            imports |-> << <<"import", " ", "Html">> >>]
      [] rel = NestedMainRel ->
           [kind |-> "elm",
            decl |-> <<"module", " ", "Sub", ".", "Main", " ", "exposing", " ", "(", "sub", ")">>,
            imports |-> << <<"import", " ", "Html">> >>]
      [] rel = SubMainRel ->
           [kind |-> "elm",
            decl |-> <<"module", " ", "SubMain", " ", "exposing", " ", "(", "help", ")">>,
            imports |-> << <<"import", " ", "Html">> >>]
      [] OTHER ->
           [kind |-> "elm",
            decl |-> <<"module", " ", "Sub", ".", "Helper", " ", "exposing", " ", "(", "sub", ")">>,
            imports |-> << <<"import", " ", "Helper">>, <<"import", " ", "Json", ".", "Decode">> >>]

\* \w matches the characters of identifiers; white space and punctuation
\* chunks are not word chunks.
IsWord(c) == c \notin {" ", ".", "/", "(", ")", ".elm", "main, remove", "help", "sub", "text"}

\* The index of the last chunk of the longest run of word chunks of t that
\* starts at i (i - 1 when t[i] is no word chunk): the greedy \w+.
RECURSIVE WordRunEnd(_, _)
WordRunEnd(t, i) ==
    IF i <= Len(t) /\ IsWord(t[i]) THEN WordRunEnd(t, i + 1) ELSE i - 1

\* The end of \w+(?:\.\w+)* starting at i.
RECURSIVE DottedEnd(_, _)
DottedEnd(t, i) ==
    LET e == WordRunEnd(t, i)
    IN  IF e >= i /\ e + 2 <= Len(t) /\ t[e + 1] = "." /\ IsWord(t[e + 2])
        THEN DottedEnd(t, e + 2)
        ELSE e

\* The index of the first ")" of t at or after i, 0 when there is none: the
\* end of the lazy [\s\S]*?\) .
RECURSIVE FirstClose(_, _)
FirstClose(t, i) ==
    IF i > Len(t) THEN 0
    ELSE IF t[i] = ")" THEN i
    ELSE FirstClose(t, i + 1)

\* /^module\s+(\w+)(?:\s+exposing\s*\(([\s\S]*?)\))?/m on the declaration
\* line: whether it matches, where the match ends and what group 2 holds.
ModuleMatch(decl) ==
    IF ~(Len(decl) >= 3 /\ decl[1] = "module" /\ decl[2] = " " /\ IsWord(decl[3]))
    THEN [matched |-> FALSE, end |-> 0, exposing |-> <<>>]
    ELSE LET e == WordRunEnd(decl, 3)
             \* \s+exposing\s*\(
             open == IF e + 4 <= Len(decl) /\ decl[e + 1] = " "
                        /\ decl[e + 2] = "exposing" /\ decl[e + 3] = " "
                        /\ decl[e + 4] = "("
                     THEN e + 4
                     ELSE IF e + 3 <= Len(decl) /\ decl[e + 1] = " "
                             /\ decl[e + 2] = "exposing" /\ decl[e + 3] = "("
                     THEN e + 3
                     ELSE 0
             close == IF open = 0 THEN 0 ELSE FirstClose(decl, open + 1)
         IN  IF close = 0
             THEN [matched |-> TRUE, end |-> e, exposing |-> <<>>]
             ELSE [matched |-> TRUE, end |-> close,
                   exposing |-> SubSeq(decl, open + 1, close - 1)]

\* file.endsWith("Main.elm")
endsWithMainElm(file) ==
    /\ Len(file) >= 2
    /\ file[Len(file)] = ".elm"
    /\ file[Len(file) - 1] \in {"Main", "SubMain"}

\* path.basename(file, ".elm")
basename(file) ==
    IF Len(file) >= 2 /\ file[Len(file)] = ".elm"
    THEN <<file[Len(file) - 1]>>
    ELSE <<file[Len(file)]>>

\* content.replace(/^module.../m, `module Version.${versionCapitalized}${...} exposing ($2)`)
ModuleBase(file) ==
    IF endsWithMainElm(file) THEN <<>> ELSE <<".">> \o basename(file)

RewriteModule(decl, versionCapitalized, file) ==
    LET m == ModuleMatch(decl)
    IN  IF ~m.matched THEN decl
        ELSE <<"module", " ", "Version", ".">> \o versionCapitalized
             \o ModuleBase(file)
             \o <<" ", "exposing", " ", "(">> \o m.exposing \o <<")">>
             \o SubSeq(decl, m.end + 1, Len(decl))

\* content.replace(/^import\s+(\w+(?:\.\w+)*)/gm, (match, module) => ...) on
\* one import line; elmFiles is the list findElmFiles returned.
RewriteImport(line, versionCapitalized, elmFiles) ==
    IF ~(Len(line) >= 3 /\ line[1] = "import" /\ line[2] = " " /\ IsWord(line[3]))
    THEN line
    ELSE LET e == DottedEnd(line, 3)
             module == SubSeq(line, 3, e)
         IN  IF /\ module # <<"Main">>
                /\ \E k \in 1..Len(elmFiles) : elmFiles[k] = module \o <<".elm">>
             THEN <<"import", " ", "Version", ".">> \o versionCapitalized
                  \o <<".">> \o module \o SubSeq(line, e + 1, Len(line))
             ELSE line

\* The two replacements applied to one file's content.
RewriteContent(content, versionCapitalized, file, elmFiles) ==
    [content EXCEPT
       !.decl = RewriteModule(content.decl, versionCapitalized, file),
       !.imports = [k \in 1..Len(content.imports) |->
                      RewriteImport(content.imports[k], versionCapitalized, elmFiles)]]

\* ------------------------------------------------------------------ elm.json
\* A version string "major.minor.patch": three components, each the sequence
\* of its decimal digits.
Digits(n) == IF n < 10 THEN <<n>> ELSE <<n \div 10, n % 10>>

VersionString(minor) == <<<<1>>, Digits(minor), <<0>>>>

Versions == {VersionString(m) : m \in 9..MaxMinor}

Packages == {"elm/core"}

\* One tier of a manifest: package name -> version string, for some packages.
Tiers == UNION {[S -> Versions] : S \in SUBSET Packages}

Manifests == [direct : Tiers, indirect : Tiers]

\* The elm.json shipped in template/ is a valid Elm manifest: no package is
\* in both of its tiers. A candidate's elm.json is any manifest.
SkeletonManifests == {m \in Manifests : DOMAIN m.direct \cap DOMAIN m.indirect = {}}

\* The number a run of decimal digits denotes (semver's parse of a component).
RECURSIVE Number(_)
Number(digits) ==
    IF digits = <<>> THEN 0
    ELSE 10 * Number(SubSeq(digits, 1, Len(digits) - 1)) + digits[Len(digits)]

\* The comparison of two digit sequences as text: the first differing digit
\* decides, and a proper prefix is the smaller.
RECURSIVE TextGt(_, _)
TextGt(x, y) ==
    IF x = <<>> THEN FALSE
    ELSE IF y = <<>> THEN TRUE
    ELSE IF Head(x) # Head(y) THEN Head(x) > Head(y)
    ELSE TextGt(Tail(x), Tail(y))

\* semver.gt replaced by the comparison of the version strings as text.
semverGtAsText(a, b) ==
    \/ TextGt(a[1], b[1])
    \/ a[1] = b[1] /\ TextGt(a[2], b[2])
    \/ a[1] = b[1] /\ a[2] = b[2] /\ TextGt(a[3], b[3])

\* semver.gt(a, b): numeric comparison, component by component.
semverGt(a, b) ==
    LET A == [k \in 1..3 |-> Number(a[k])]
        B == [k \in 1..3 |-> Number(b[k])]
    IN  \/ A[1] > B[1]
        \/ A[1] = B[1] /\ A[2] > B[2]
        \/ A[1] = B[1] /\ A[2] = B[2] /\ A[3] > B[3]

\* Object.entries(obj): the keys of an object in insertion order; the model
\* has one fixed order of package names.
Has(obj, pkg) == pkg \in DOMAIN obj

\* Lines 203-212, one candidate's elm.json folded into combinedDependencies.
CombineTier(combined, tier) ==
    [pkg \in DOMAIN combined \cup DOMAIN tier |->
        IF ~Has(tier, pkg) THEN combined[pkg]
        ELSE IF ~Has(combined, pkg) \/ semverGt(tier[pkg], combined[pkg])
        THEN tier[pkg]
        ELSE combined[pkg]]

Combine(combined, elmJson) ==
    [direct |-> CombineTier(combined.direct, elmJson.direct),
     indirect |-> CombineTier(combined.indirect, elmJson.indirect)]

\* MergeTier without the `if (directVer)` branch.
MergeTierWithoutPin(existing, direct, combined) ==
    [pkg \in DOMAIN existing \cup DOMAIN combined |->
        IF ~Has(combined, pkg) THEN existing[pkg]
        ELSE IF Has(existing, pkg)
        THEN (IF semverGt(combined[pkg], existing[pkg])
              THEN combined[pkg] ELSE existing[pkg])
        ELSE combined[pkg]]

\* MergeTier without the comparison with the existing version: the
\* template's own version is kept.
MergeTierKeepExisting(existing, direct, combined) ==
    [pkg \in DOMAIN existing \cup DOMAIN combined |->
        IF ~Has(combined, pkg) THEN existing[pkg]
        ELSE IF Has(direct, pkg) THEN direct[pkg]
        ELSE IF Has(existing, pkg) THEN existing[pkg]
        ELSE combined[pkg]]

\* Lines 221-240 for one depType: `existing` is tempElmJson.dependencies[depType]
\* and `direct` is tempElmJson.dependencies.direct, both as they are when the
\* iteration starts.
MergeTier(existing, direct, combined) ==
    [pkg \in DOMAIN existing \cup DOMAIN combined |->
        IF ~Has(combined, pkg) THEN existing[pkg]
        ELSE IF Has(direct, pkg) THEN direct[pkg]
        ELSE IF Has(existing, pkg)
        THEN (IF semverGt(combined[pkg], existing[pkg])
              THEN combined[pkg] ELSE existing[pkg])
        ELSE combined[pkg]]

\* PostPass without the delete.
PostPassWithoutDelete(deps) == deps

\* Lines 244-248: delete from indirect what direct has.
PostPass(deps) ==
    [direct |-> deps.direct,
     indirect |-> [pkg \in DOMAIN deps.indirect \ DOMAIN deps.direct |->
                     deps.indirect[pkg]]]

\* Lines 220-248: the merge of combinedDependencies into the temporary
\* project's dependencies. The direct tier is assigned first, so the indirect
\* iteration reads the merged direct tier.
MergeDependencies(temp, combined) ==
    LET direct == MergeTier(temp.direct, temp.direct, combined.direct)
        indirect == MergeTier(temp.indirect, direct, combined.indirect)
    IN  PostPass([direct |-> direct, indirect |-> indirect])

\* ------------------------------------------------------------------ driver template
\* src/template/src/Benchmarks.elm: the fixed text between the placeholders is
\* one chunk per stretch.
BenchmarksTemplate ==
    <<"port module Benchmarks ... import Benchmark.Runner.Cli\n",
      "{{IMPORTS}}",
      "\n ... Benchmark.Alternative.rank\n \"",
      "{{FUNCTION_NAME}}",
      "\"\n (\\f -> f ",
      "{{ARGS}}",
      ")\n ",
      "{{VERSIONS}}",
      "\n\n\n",
      "{{ARG_DEFS}}">>

\* The index of the first chunk of text equal to marker, 0 when none.
RECURSIVE IndexOf(_, _, _)
IndexOf(text, marker, k) ==
    IF k > Len(text) THEN 0
    ELSE IF text[k] = marker THEN k
    ELSE IndexOf(text, marker, k + 1)

\* What String.prototype.replace makes of a replacement string when the
\* match is the chunk number k of text: $$ stands for "$", $& for the matched
\* text, $` for the text before the match and $' for the text after it.
RECURSIVE GetSubstitution(_, _, _)
GetSubstitution(code, text, k) ==
    IF code = <<>> THEN <<>>
    ELSE (CASE Head(code) = "$$" -> <<"$">>
            [] Head(code) = "$&" -> <<text[k]>>
            [] Head(code) = "$`" -> SubSeq(text, 1, k - 1)
            [] Head(code) = "$'" -> SubSeq(text, k + 1, Len(text))
            [] OTHER -> <<Head(code)>>)
         \o GetSubstitution(Tail(code), text, k)

\* String.prototype.replace(marker, code) with a string pattern: the first
\* occurrence is replaced, a text without the marker is returned as it is.
replace(text, marker, code) ==
    LET k == IndexOf(text, marker, 1)
    IN  IF k = 0 THEN text
        ELSE SubSeq(text, 1, k - 1) \o GetSubstitution(code, text, k)
             \o SubSeq(text, k + 1, Len(text))

\* xs.map(f).join(sep) for a list of texts
RECURSIVE JoinTexts(_, _)
JoinTexts(texts, sep) ==
    IF texts = <<>> THEN <<>>
    ELSE IF Len(texts) = 1 THEN texts[1]
    ELSE texts[1] \o sep \o JoinTexts(Tail(texts), sep)

\* The tuple list with the candidates in reverse order.
versionsCodeReversed(versionDirs, functionName) ==
    <<"[ ">>
    \o JoinTexts([k \in 1..Len(versionDirs) |->
                    LET r == Len(versionDirs) + 1 - k
                    IN  <<"( \"">> \o versionDirs[r] \o <<"\", ", "Version", ".">>
                        \o capitalize(versionDirs[r]) \o <<".", functionName, " )">>],
                 <<"\n        , ">>)
    \o <<"\n        ]">>

\* Lines 86-92
versionsCode(versionDirs, functionName) ==
    <<"[ ">>
    \o JoinTexts([k \in 1..Len(versionDirs) |->
                    <<"( \"">> \o versionDirs[k] \o <<"\", ", "Version", ".">>
                    \o capitalize(versionDirs[k]) \o <<".", functionName, " )">>],
                 <<"\n        , ">>)
    \o <<"\n        ]">>

\* Line 100
argsCode(args) ==
    JoinTexts([k \in 1..Len(args) |-> <<"arg", ToString(k - 1)>>], <<" ">>)

\* Lines 105-107
importsCode(versionDirs) ==
    JoinTexts([k \in 1..Len(versionDirs) |->
                 <<"import", " ", "Version", ".">> \o capitalize(versionDirs[k])],
              <<"\n">>)

\* Line 112
argDefsCode(args) ==
    JoinTexts([k \in 1..Len(args) |-> <<"arg", ToString(k - 1), " =\n    ", args[k]>>],
              <<"\n\n\n">>)

\* The template left as it is.
NotSynthesized(template, versionDirs, functionName, args) == template

\* Lines 80-117: the five replacements in the order the script applies them.
Synthesized(template, versionDirs, functionName, args) ==
    LET t1 == replace(template, "{{FUNCTION_NAME}}", <<functionName>>)
        t2 == replace(t1, "{{VERSIONS}}", versionsCode(versionDirs, functionName))
        t3 == replace(t2, "{{ARGS}}", argsCode(args))
        t4 == replace(t3, "{{IMPORTS}}", importsCode(versionDirs))
    IN  replace(t4, "{{ARG_DEFS}}", argDefsCode(args))

\* ------------------------------------------------------------------ report
maxBarLength == 20

\* The quotient cut off instead of rounded.
RoundDown(p, q) == p \div q

\* Math.round(p / q) for integers p >= 0 and q > 0
Round(p, q) == (2 * p + q) \div (2 * q)

\* Lines 316-318
RECURSIVE fastestIndexFrom(_, _, _)
fastestIndexFrom(results, minIndex, currentIndex) ==
    IF currentIndex > Len(results) THEN minIndex
    ELSE fastestIndexFrom(results,
                          IF results[currentIndex] < results[minIndex]
                          THEN currentIndex ELSE minIndex,
                          currentIndex + 1)

\* The last index of the smallest measurement instead of the first.
fastestIndexLast(results) ==
    CHOOSE k \in 1..Len(results) :
       /\ \A j \in 1..Len(results) : results[k] <= results[j]
       /\ \A j \in (k + 1)..Len(results) : results[j] > results[k]

fastestIndex(results) == fastestIndexFrom(results, 1, 1)

\* Lines 329-341
comparison(index, nsPerRun, baseline) ==
    IF index = 1 THEN <<"baseline">>
    ELSE IF baseline = 0 THEN <<"same speed">>     \* NaN and Infinity: see ReportThrows
    ELSE LET percentDiff == Round(100 * nsPerRun, baseline) - 100
         IN  IF percentDiff > 0 THEN <<ToString(percentDiff), "% slower">>
             ELSE IF percentDiff < 0 THEN <<ToString(0 - percentDiff), "% faster">>
             ELSE <<"same speed">>

\* Line 323; with a baseline of 0 the quotient is NaN (bar of 0) or Infinity.
barLength(nsPerRun, baseline) ==
    IF baseline = 0 THEN 0 ELSE Round(nsPerRun * maxBarLength, baseline)

\* The iteration of results.results.forEach at which the callback throws, 0
\* when none does: String.prototype.repeat(Infinity) is a RangeError and
\* versions[index].length of a missing version is a TypeError.
RECURSIVE ThrowsAt(_, _, _)
ThrowsAt(results, nVersions, index) ==
    IF index > Len(results) THEN 0
    ELSE IF index > nVersions THEN index
    ELSE IF results[1] = 0 /\ results[index] > 0 THEN index
    ELSE ThrowsAt(results, nVersions, index + 1)

\* Lines 320-347: the line printed for one result
ReportLine(results, versionList, index) ==
    [version |-> versionList[index],
     bar |-> barLength(results[index], results[1]),
     nsRounded |-> results[index],
     comparison |-> comparison(index, results[index], results[1]),
     isFastest |-> index = fastestIndex(results)]

\* ------------------------------------------------------------------ state
VARIABLES
    versions,              \* values.version: the -v options, in order
    functionName,          \* positionals[0]
    args,                  \* positionals.slice(1)
    fs,                    \* the file system: absolute path -> directory or file content
    pc,                    \* the statement of the script that runs next
    i,                     \* the index of the running for-of loop
    combinedDependencies,  \* line 198
    writeLog,              \* the fs.writeFile calls of the copy loop (lines 165-194), in order
    programResults,        \* what the compiled benchmark program measures when it is run
    results,               \* line 294: results.results, as nsPerRun values
    stdout,                \* the report lines printed by console.log (line 346)
    execLog,               \* the commands handed to exec (lines 259 and 280), in order
    execResult,            \* what exec of the compiled program gave (line 280)
    other,                 \* a second run of the script that shares the file system
    exitCode               \* the exit status of the process, -1 while it runs

vars == <<versions, functionName, args, fs, pc, i, combinedDependencies,
          writeLog, programResults, results, stdout, execLog, execResult, other,
          exitCode>>

\* const versionDirs = versions.map((version) => path.relative(".", version));
versionDirs == [k \in 1..Len(versions) |-> relative(versions[k])]

\* path.join(import.meta.dirname, "template")
templateDir == <<"/", "app", "/", "template">>

Dir == [kind |-> "dir"]

benchmarksElmPath(root) == join(join(root, <<"src">>), <<"Benchmarks", ".elm">>)

elmJsonPath(dir) == join(dir, <<"elm.json">>)

srcDirOf(version) == join(version, <<"src">>)

versionDir == join(join(tempDir, <<"src">>), <<"Version">>)

Exists(f, p) == p \in DOMAIN f

IsFile(f, p) == Exists(f, p) /\ f[p].kind # "dir"

\* The path below `root` that p names, p being root or a path inside root.
Inside(p, root) == p = root \/ StartsWith(p, root \o <<"/">>)

\* fs.cp(from, to, { recursive: true })
cp(f, from, to) ==
    LET copied == {p \in DOMAIN f : Inside(p, from)}
        target(p) == to \o SubSeq(p, Len(from) + 1, Len(p))
        source(q) == from \o SubSeq(q, Len(to) + 1, Len(q))
    IN  [q \in {target(p) : p \in copied} |-> f[source(q)]] @@ f

\* fs.rm(dir, { recursive: true })
rm(f, dir) == [p \in {q \in DOMAIN f : ~Inside(q, dir)} |-> f[p]]

\* fs.writeFile(path, content)
writeFile(f, path, content) == (path :> content) @@ f

\* findElmFiles(dir): the files below dir, as absolute paths, that end in .elm
findElmFiles(f, dir) ==
    LET all == [k \in 1..Len(ReaddirOrder) |-> resolve(dir, ReaddirOrder[k])]
        isElmFile(file) == IsFile(f, file) /\ file[Len(file)] = ".elm"
    IN  SelectSeq(all, isElmFile)

\* Line 166-168
destPathOf(file, versionCapitalized) ==
    IF endsWithMainElm(file)
    THEN join(versionDir, versionCapitalized \o <<".elm">>)
    ELSE file

\* Lines 165-194: the copy loop over elmFiles from file number j on, for the
\* candidate number k; st is the file system and the write log so far.
RECURSIVE CopyFiles(_, _, _, _, _)
CopyFiles(st, elmFiles, j, k, versionCapitalized) ==
    IF j > Len(elmFiles) THEN st
    ELSE LET file == elmFiles[j]
             destPath == destPathOf(file, versionCapitalized)
             content == RewriteContent(st.fs[file], versionCapitalized, file, elmFiles)
         IN  CopyFiles([fs |-> writeFile(st.fs, destPath, content),
                        log |-> Append(st.log, [version |-> k, file |-> file,
                                                read |-> st.fs[file],
                                                destPath |-> destPath,
                                                content |-> content])],
                       elmFiles, j + 1, k, versionCapitalized)

\* ------------------------------------------------------------------ initial states
\* What a candidate directory holds: whether it has a src/ directory, which
\* source files are in it, and its elm.json (absent, or present with a
\* parsable or an unparsable text).
DirLayouts ==
    {[src |-> FALSE, files |-> {}]} \cup {[src |-> TRUE, files |-> F] : F \in SUBSET Pool}

NoElmJson == [kind |-> "none"]

ElmJson(deps) == [kind |-> "json", parsable |-> TRUE, dependencies |-> deps]

BadElmJson == [kind |-> "json", parsable |-> FALSE]

EmptyTier == [pkg \in {} |-> VersionString(9)]

\* The files of one candidate directory d.
DirFs(d, layout, elmJson) ==
    LET src == srcDirOf(d)
        prefix == resolve(src, <<>>)
        sources == [p \in {resolve(src, rel) : rel \in layout.files} |->
                      SourceContent(SubSeq(p, Len(prefix) + 1, Len(p)))]
        srcEntry == IF layout.src THEN (Abs(src) :> Dir) ELSE [p \in {} |-> Dir]
        jsonEntry == IF elmJson.kind = "none" THEN [p \in {} |-> Dir]
                     ELSE (Abs(elmJsonPath(d)) :> elmJson)
    IN  sources @@ srcEntry @@ jsonEntry

\* The template directory shipped with the script; skeleton is the
\* dependencies object of template/elm.json.
TemplateFs(skeleton) ==
    (templateDir :> Dir)
    @@ (join(templateDir, <<"src">>) :> Dir)
    @@ (benchmarksElmPath(templateDir) :> [kind |-> "driver", text |-> BenchmarksTemplate])
    @@ (elmJsonPath(templateDir) :> ElmJson(skeleton))

RECURSIVE DirsFs(_, _, _)
DirsFs(dirs, layouts, elmJsons) ==
    IF dirs = {} THEN [p \in {} |-> Dir]
    ELSE LET d == CHOOSE x \in dirs : TRUE
         IN  DirFs(d, layouts[d], elmJsons[d]) @@ DirsFs(dirs \ {d}, layouts, elmJsons)

VersionLists == UNION {[1..n -> DisplayNames] : n \in 1..MaxCandidates}

UsedDirs(vs) == {relative(vs[k]) : k \in 1..Len(vs)}

SampleDependencies ==
    [direct |-> ("elm/core" :> VersionString(9)), indirect |-> EmptyTier]

SampleResults == <<100, 50, 150, 200>>

\* exec of the compiled program has not returned.
NotRun == [code |-> -1, parsable |-> FALSE, stderr |-> FALSE]

\* The script starts at line 72 with nothing copied, combined or printed.
InitRun ==
    /\ pc = "mkdtemp"
    /\ i = 1
    /\ combinedDependencies = [direct |-> EmptyTier, indirect |-> EmptyTier]
    /\ writeLog = <<>>
    /\ results = <<>>
    /\ stdout = <<>>
    /\ execLog = <<>>
    /\ execResult = NotRun
    /\ exitCode = -1

\* No second run of the script.
NoOther == [pc |-> "none", i |-> 1, writeLog |-> <<>>]

InitCommon ==
    /\ functionName = "remove"
    /\ args = <<"42">>
    /\ other = NoOther
    /\ InitRun

\* Any command line of 1..MaxCandidates directories, each directory with any
\* layout; elm.json files are present and well formed, or missing.
Init ==
    /\ InitCommon
    /\ versions \in VersionLists
    /\ programResults = SubSeq(SampleResults, 1, Len(versions))
    /\ \E layouts \in [DirNames -> DirLayouts],
          elmJsons \in [DirNames -> {NoElmJson, ElmJson(SampleDependencies)}] :
          /\ \A d \in DirNames \ UsedDirs(versions) :
                layouts[d] = [src |-> FALSE, files |-> {}] /\ elmJsons[d] = NoElmJson
          /\ fs = TemplateFs(SampleDependencies) @@ DirsFs(DirNames, layouts, elmJsons)

\* ------------------------------------------------------------------ the script
Fail ==
    /\ pc' = "failed"
    /\ exitCode' = 1

\* Lines 72-74: mkdtemp and the copy of template/
MakeTempDir ==
    /\ pc = "mkdtemp"
    /\ fs' = cp((tempDir :> Dir) @@ fs, templateDir, tempDir)
    /\ pc' = "synthesize"
    /\ UNCHANGED <<versions, functionName, args, i, combinedDependencies, writeLog,
                   programResults, other, execResult, execLog,
                   results, stdout, exitCode>>

\* Lines 76-119: Benchmarks.elm is read, the placeholders are replaced and the
\* file is written back.
Synthesize ==
    /\ pc = "synthesize"
    /\ LET path == benchmarksElmPath(tempDir)
           benchmarksElmContent ==
               Synthesized(fs[path].text, versionDirs, functionName, args)
       IN  fs' = writeFile(fs, path, [kind |-> "driver", text |-> benchmarksElmContent])
    /\ pc' = "copy"
    /\ i' = 1
    /\ UNCHANGED <<versions, functionName, args, combinedDependencies, writeLog,
                   programResults, other, execResult, execLog,
                   results, stdout, exitCode>>

\* Lines 153-195, one iteration of the outer loop: the candidate number i is
\* copied into the temporary project. fs.readdir rejects when src/ is missing.
CopyVersion ==
    /\ pc = "copy"
    /\ i <= Len(versionDirs)
    /\ LET version == versionDirs[i]
           versionCapitalized == capitalize(version)
           srcDir == srcDirOf(version)
           destDir == join(versionDir, versionCapitalized)
           made == (destDir :> Dir) @@ (versionDir :> Dir) @@ fs
       IN  IF ~Exists(fs, Abs(srcDir))
           THEN /\ fs' = made
                /\ Fail
                /\ UNCHANGED <<i, writeLog>>
           ELSE LET elmFiles == findElmFiles(made, srcDir)
                    st == CopyFiles([fs |-> made, log |-> writeLog], elmFiles, 1, i,
                                    versionCapitalized)
                IN  /\ fs' = st.fs
                    /\ writeLog' = st.log
                    /\ i' = IF i = Len(versionDirs) THEN 1 ELSE i + 1
                    /\ pc' = IF i = Len(versionDirs) THEN "combine" ELSE "copy"
                    /\ UNCHANGED exitCode
    /\ UNCHANGED <<versions, functionName, args, combinedDependencies,
                   programResults, other, execResult, execLog,
                   results, stdout>>

\* Lines 199-213, one iteration: the candidate's elm.json is read, parsed and
\* folded into combinedDependencies. A missing or unparsable file throws.
CombineVersion ==
    /\ pc = "combine"
    /\ i <= Len(versionDirs)
    /\ LET path == Abs(elmJsonPath(versionDirs[i]))
       IN  IF ~IsFile(fs, path) \/ ~fs[path].parsable
           THEN /\ Fail
                /\ UNCHANGED <<i, combinedDependencies>>
           ELSE /\ combinedDependencies' =
                       Combine(combinedDependencies, fs[path].dependencies)
                /\ i' = IF i = Len(versionDirs) THEN 1 ELSE i + 1
                /\ pc' = IF i = Len(versionDirs) THEN "merge" ELSE "combine"
                /\ UNCHANGED exitCode
    /\ UNCHANGED <<versions, functionName, args, fs, writeLog, programResults, other, execResult,
                   execLog, results, stdout>>

\* Lines 216-253: the temporary project's elm.json is read, merged and written.
MergeElmJson ==
    /\ pc = "merge"
    /\ LET tempElmJsonPath == elmJsonPath(tempDir)
           tempElmJson == fs[tempElmJsonPath]
       IN  fs' = writeFile(fs, tempElmJsonPath,
                           ElmJson(MergeDependencies(tempElmJson.dependencies,
                                                     combinedDependencies)))
    /\ pc' = "make"
    /\ UNCHANGED <<versions, functionName, args, i, combinedDependencies, writeLog,
                   programResults, other, execResult, execLog,
                   results, stdout, exitCode>>

\* elm make run again after a failure instead of the error thrown again.
ElmMakeWithRetry ==
    /\ pc = "make"
    /\ execLog' = Append(execLog, "elm make")
    /\ \E ok \in BOOLEAN : pc' = IF ok THEN "run" ELSE "make"
    /\ UNCHANGED <<versions, functionName, args, fs, i, combinedDependencies, writeLog,
                   programResults, other, execResult, results, stdout, exitCode>>

\* Lines 258-272: elm make; exec rejects on a non-zero exit and the error is
\* thrown again.
ElmMake ==
    /\ pc = "make"
    /\ execLog' = Append(execLog, "elm make")
    /\ \E ok \in BOOLEAN :
          IF ok THEN pc' = "run" /\ UNCHANGED exitCode ELSE Fail
    /\ UNCHANGED <<versions, functionName, args, fs, i, combinedDependencies, writeLog,
                   programResults, other, execResult, results, stdout>>

\* What exec of the compiled program may give: exec rejects on a non-zero
\* exit, and otherwise resolves with a standard output that JSON.parse accepts
\* or not and with an error output that is empty or not.
ExecResults ==
    {[code |-> 1, parsable |-> FALSE, stderr |-> FALSE]}
    \cup {[code |-> 0, parsable |-> p, stderr |-> e] : p \in BOOLEAN, e \in BOOLEAN}

\* Lines 277-294: the compiled program is run and its output parsed; a
\* non-zero exit and an unparsable output both throw, an error output is
\* only logged (lines 282-284).
RunGeneratedProgram ==
    /\ pc = "run"
    /\ execLog' = Append(execLog, "node")
    /\ \E r \in ExecResults :
          /\ execResult' = r
          /\ IF r.code = 0 /\ r.parsable
             THEN /\ results' = programResults
                  /\ pc' = "report"
                  /\ UNCHANGED exitCode
             ELSE /\ Fail
                  /\ UNCHANGED results
    /\ UNCHANGED <<versions, functionName, args, fs, i, combinedDependencies, writeLog,
                   programResults, other, stdout>>

\* Lines 312-351: the report. The lines before a throwing iteration are
\* printed.
Report ==
    /\ pc = "report"
    /\ IF results = <<>>
       THEN Fail /\ UNCHANGED stdout      \* results.results[0].nsPerRun of undefined
       ELSE LET t == ThrowsAt(results, Len(versions), 1)
                n == IF t = 0 THEN Len(results) ELSE t - 1
            IN  /\ stdout' = [k \in 1..n |-> ReportLine(results, versions, k)]
                /\ IF t = 0 THEN pc' = "cleanup" /\ UNCHANGED exitCode ELSE Fail
    /\ UNCHANGED <<versions, functionName, args, fs, i, combinedDependencies, writeLog,
                   programResults, other, execResult,
                   execLog, results>>

\* Line 355
RemoveTempDir ==
    /\ pc = "cleanup"
    /\ fs' = rm(fs, tempDir)
    /\ pc' = "done"
    /\ exitCode' = 0
    /\ UNCHANGED <<versions, functionName, args, i, combinedDependencies, writeLog,
                   programResults, other, execResult, execLog,
                   results, stdout>>

Next ==
    \/ MakeTempDir
    \/ Synthesize
    \/ CopyVersion
    \/ CombineVersion
    \/ MergeElmJson
    \/ ElmMake
    \/ RunGeneratedProgram
    \/ Report
    \/ RemoveTempDir

Spec == Init /\ [][Next]_vars

\* The merge of the dependencies alone: a command line of MaxCandidates
\* candidates, each with Main.elm only, and every combination of candidate
\* manifests and template manifest.
ManifestVersions == SubSeq(<<<<"o">>, <<"n">>, <<"O">>>>, 1, MaxCandidates)

ManifestInit ==
    /\ InitCommon
    /\ versions = ManifestVersions
    /\ programResults = SubSeq(SampleResults, 1, Len(versions))
    /\ \E deps \in [UsedDirs(ManifestVersions) -> Manifests],
          skeleton \in SkeletonManifests :
          fs = TemplateFs(skeleton)
               @@ DirsFs(UsedDirs(ManifestVersions),
                         [d \in UsedDirs(ManifestVersions) |->
                            [src |-> TRUE, files |-> {MainRel}]],
                         [d \in UsedDirs(ManifestVersions) |-> ElmJson(deps[d])])

ManifestSpec == ManifestInit /\ [][Next]_vars

\* The synthesis of the driver alone: any command line of 1..MaxCandidates
\* directories, each with Main.elm only and a well formed elm.json, any of the
\* function names and any list of 0..MaxArgs argument expressions.
FunctionNames == {"remove", "{{ARGS}}", "{{VERSIONS}}"}

ArgTexts == {"42", "$$"}

ArgLists == UNION {[1..n -> ArgTexts] : n \in 0..MaxArgs}

SynthInit ==
    /\ InitRun
    /\ other = NoOther
    /\ functionName \in FunctionNames
    /\ args \in ArgLists
    /\ versions \in VersionLists
    /\ programResults = SubSeq(SampleResults, 1, Len(versions))
    /\ fs = TemplateFs(SampleDependencies)
            @@ DirsFs(UsedDirs(versions),
                      [d \in UsedDirs(versions) |-> [src |-> TRUE, files |-> {MainRel}]],
                      [d \in UsedDirs(versions) |-> ElmJson(SampleDependencies)])

SynthSpec == SynthInit /\ [][Next]_vars

\* Two runs of the script at the same time, with the same command line and
\* in the same working directory. fs.mkdtemp gives the second process a
\* directory of its own; what the second process does is what the script does
\* with the two temporary directories exchanged. Of the second process the
\* steps up to the end of the copy loop are modelled, one candidate at a
\* time; its other steps read the candidates' elm.json files and write inside
\* its own temporary directory only.
tempDirOther == <<"/", "tmp", "/", "elm-bench-2">>

SwapPath(p) ==
    IF Inside(p, tempDir) THEN tempDirOther \o SubSeq(p, Len(tempDir) + 1, Len(p))
    ELSE IF Inside(p, tempDirOther) THEN tempDir \o SubSeq(p, Len(tempDirOther) + 1, Len(p))
    ELSE p

SwapFs(f) == [p \in {SwapPath(q) : q \in DOMAIN f} |-> f[SwapPath(p)]]

SwapLog(log) == [n \in 1..Len(log) |-> [log[n] EXCEPT !.destPath = SwapPath(@)]]

\* Lines 72-74 in the second process
OtherMakeTempDir ==
    /\ other.pc = "mkdtemp"
    /\ fs' = SwapFs(cp((tempDir :> Dir) @@ SwapFs(fs), templateDir, tempDir))
    /\ other' = [other EXCEPT !.pc = "copy"]
    /\ UNCHANGED <<versions, functionName, args, pc, i, combinedDependencies, writeLog,
                   programResults, results, stdout, execLog, execResult, exitCode>>

\* Lines 153-195 in the second process, one iteration of the outer loop
OtherCopyVersion ==
    /\ other.pc = "copy"
    /\ other.i <= Len(versionDirs)
    /\ LET version == versionDirs[other.i]
           versionCapitalized == capitalize(version)
           srcDir == srcDirOf(version)
           destDir == join(versionDir, versionCapitalized)
           made == (destDir :> Dir) @@ (versionDir :> Dir) @@ SwapFs(fs)
       IN  IF ~Exists(fs, Abs(srcDir))
           THEN /\ fs' = SwapFs(made)
                /\ other' = [other EXCEPT !.pc = "failed"]
           ELSE LET elmFiles == findElmFiles(made, srcDir)
                    st == CopyFiles([fs |-> made, log |-> SwapLog(other.writeLog)],
                                    elmFiles, 1, other.i, versionCapitalized)
                IN  /\ fs' = SwapFs(st.fs)
                    /\ other' = [pc |-> IF other.i = Len(versionDirs)
                                        THEN "done" ELSE "copy",
                                 i |-> IF other.i = Len(versionDirs)
                                       THEN 1 ELSE other.i + 1,
                                 writeLog |-> SwapLog(st.log)]
    /\ UNCHANGED <<versions, functionName, args, pc, i, combinedDependencies, writeLog,
                   programResults, results, stdout, execLog, execResult, exitCode>>

ConcurrentNext ==
    \/ Next
    \/ OtherMakeTempDir
    \/ OtherCopyVersion

\* Every candidate has Main.elm, with or without Helper.elm, and a well formed
\* elm.json.
ConcurrentInit ==
    /\ InitRun
    /\ functionName = "remove"
    /\ args = <<"42">>
    /\ other = [pc |-> "mkdtemp", i |-> 1, writeLog |-> <<>>]
    /\ versions = ManifestVersions
    /\ programResults = SubSeq(SampleResults, 1, Len(versions))
    /\ \E files \in [UsedDirs(ManifestVersions) -> {{MainRel}, {MainRel, HelperRel}}] :
          fs = TemplateFs(SampleDependencies)
               @@ DirsFs(UsedDirs(ManifestVersions),
                         [d \in UsedDirs(ManifestVersions) |->
                            [src |-> TRUE, files |-> files[d]]],
                         [d \in UsedDirs(ManifestVersions) |->
                            ElmJson(SampleDependencies)])

ConcurrentSpec == ConcurrentInit /\ [][ConcurrentNext]_vars

\* A template that does not match the script: Benchmarks.elm is the shipped
\* text or lacks one of the placeholders. Any command line of
\* 1..MaxCandidates directories, each with Main.elm only and a well formed
\* elm.json.
WithoutMarker(marker) == SelectSeq(BenchmarksTemplate, LAMBDA c : c # marker)

Templates ==
    {BenchmarksTemplate}
    \cup {WithoutMarker(marker) :
             marker \in {"{{FUNCTION_NAME}}", "{{VERSIONS}}", "{{ARGS}}", "{{IMPORTS}}",
                         "{{ARG_DEFS}}"}}

TemplateInit ==
    /\ InitCommon
    /\ versions \in VersionLists
    /\ programResults = SubSeq(SampleResults, 1, Len(versions))
    /\ \E template \in Templates :
          fs = (benchmarksElmPath(templateDir) :> [kind |-> "driver", text |-> template])
               @@ TemplateFs(SampleDependencies)
               @@ DirsFs(UsedDirs(versions),
                         [d \in UsedDirs(versions) |-> [src |-> TRUE, files |-> {MainRel}]],
                         [d \in UsedDirs(versions) |-> ElmJson(SampleDependencies)])

TemplateSpec == TemplateInit /\ [][Next]_vars

\* The choice of the entry module alone: one candidate, given by any display
\* name, whose src/ holds any of the five source files, with a well formed
\* elm.json.
EntryInit ==
    /\ InitCommon
    /\ \E name \in DisplayNames : versions = <<name>>
    /\ programResults = SubSeq(SampleResults, 1, Len(versions))
    /\ \E files \in SUBSET {ReaddirOrder[k] : k \in 1..Len(ReaddirOrder)} :
          fs = TemplateFs(SampleDependencies)
               @@ DirsFs(UsedDirs(versions),
                         [d \in UsedDirs(versions) |-> [src |-> TRUE, files |-> files]],
                         [d \in UsedDirs(versions) |-> ElmJson(SampleDependencies)])

EntrySpec == EntryInit /\ [][Next]_vars

\* The report alone: 1..MaxMeasured candidates, each with Main.elm only and a
\* well formed elm.json, and any measurement of NsPool for each of them.
NsPool == {0, 50, 100, 150, 200, 254, 316}

ReportVersions ==
    <<<<"o">>, <<".", "/", "n">>, <<"O">>, <<".", "/", "o">>, <<"n">>, <<".", "/", "O">>>>

ReportInit ==
    /\ InitCommon
    /\ \E n \in 1..MaxMeasured :
          /\ versions = SubSeq(ReportVersions, 1, n)
          /\ programResults \in [1..n -> NsPool]
    /\ fs = TemplateFs(SampleDependencies)
            @@ DirsFs(UsedDirs(versions),
                      [d \in UsedDirs(versions) |-> [src |-> TRUE, files |-> {MainRel}]],
                      [d \in UsedDirs(versions) |-> ElmJson(SampleDependencies)])

ReportSpec == ReportInit /\ [][Next]_vars

\* ------------------------------------------------------------------ what the claims speak of
\* The namespace of the candidate number k: the prefix of its module paths.
Namespace(k) == <<"Version", ".">> \o capitalize(versionDirs[k])

Finished == pc \in {"done", "failed"}

\* The copy loop has run for every candidate.
AllCopied == pc \in {"combine", "merge", "make", "run", "report", "cleanup", "done"}

\* The path, relative to the candidate's src/, of a file the copy loop read.
RelOf(e) ==
    SubSeq(e.file, Len(resolve(srcDirOf(versionDirs[e.version]), <<>>)) + 1, Len(e.file))

\* The module path a source file at rel holds by Elm's rule: Sub/Helper.elm
\* holds Sub.Helper.
ModuleOfRel(rel) ==
    [k \in 1..(Len(rel) - 1) |-> IF rel[k] = "/" THEN "." ELSE rel[k]]

\* The file, relative to src/, that holds a module path.
RelOfModule(module) ==
    [k \in 1..Len(module) |-> IF module[k] = "." THEN "/" ELSE module[k]] \o <<".elm">>

\* The export list of a declaration line: what stands between "(" and ")".
ExportList(decl) ==
    LET open == IndexOf(decl, "(", 1)
    IN  SubSeq(decl, open + 1, FirstClose(decl, open + 1) - 1)

\* The module path an import line names.
ImportedModule(line) == SubSeq(line, 3, DottedEnd(line, 3))

\* C1: when the run has ended, in success or in failure, the temporary
\* directory created at the start does not exist.
C1_TempDirRemoved == Finished => ~Exists(fs, tempDir)

\* C2: the copy loop writes inside the temporary directory only, and every
\* source file of every candidate keeps the content it had before the run.
C2_SourcesUntouched ==
    /\ \A n \in 1..Len(writeLog) : InTempDir(writeLog[n].destPath)
    /\ \A k \in 1..Len(versionDirs) : \A rel \in Pool :
          LET file == resolve(srcDirOf(versionDirs[k]), rel)
          IN  IsFile(fs, file) => fs[file] = SourceContent(rel)

\* C6: candidates with pairwise distinct display names get pairwise distinct
\* namespaces.
C6_DistinctNamespaces ==
    AllCopied =>
       \A j, k \in 1..Len(versions) :
          versions[j] # versions[k] => Namespace(j) # Namespace(k)

Collision == \E j, k \in 1..Len(versions) : j # k /\ Namespace(j) = Namespace(k)

\* C7: when two candidates have the same namespace the run does not end in
\* success, and no file one candidate wrote into the temporary directory is
\* written again for another candidate.
C7_CollisionFails ==
    Collision =>
       /\ exitCode # 0
       /\ \A m, n \in 1..Len(writeLog) :
             (InTempDir(writeLog[m].destPath)
                /\ writeLog[m].destPath = writeLog[n].destPath)
             => writeLog[m].version = writeLog[n].version

\* C8: in every file the copy loop writes, an import of a module that is a
\* file of the same candidate is prefixed with the candidate's namespace, and
\* every other import line is the line that was read.
C8_ImportsRewritten ==
    \A n \in 1..Len(writeLog) :
       LET e == writeLog[n]
       IN  \A m \in 1..Len(e.read.imports) :
              LET line == e.read.imports[m]
                  module == ImportedModule(line)
                  own == IsFile(fs, resolve(srcDirOf(versionDirs[e.version]),
                                            RelOfModule(module)))
              IN  e.content.imports[m] =
                     IF own
                     THEN <<"import", " ">> \o Namespace(e.version) \o <<".">>
                          \o SubSeq(line, 3, Len(line))
                     ELSE line

\* C9: every file the copy loop writes declares the namespace (entry module)
\* or the namespace followed by the file's original module path, with the
\* original export list.
C9_DeclarationRewritten ==
    \A n \in 1..Len(writeLog) :
       LET e == writeLog[n]
           rel == RelOf(e)
       IN  e.content.decl =
              <<"module", " ">> \o Namespace(e.version)
              \o (IF rel = MainRel THEN <<>> ELSE <<".">> \o ModuleOfRel(rel))
              \o <<" ", "exposing", " ", "(">>
              \o ExportList(SourceContent(rel).decl) \o <<")">>

\* C10: the entry module is written to <module root>/<namespace>.elm and
\* every other module to its relative path below <module root>/<namespace>/.
C10_Destinations ==
    \A n \in 1..Len(writeLog) :
       LET e == writeLog[n]
           rel == RelOf(e)
           versionCapitalized == capitalize(versionDirs[e.version])
       IN  e.destPath =
              IF rel = MainRel
              THEN join(versionDir, versionCapitalized \o <<".elm">>)
              ELSE join(join(versionDir, versionCapitalized), rel)

\* ------------------------------------------------------------------ the merged elm.json
\* The dependencies of the elm.json of candidate k, of the template and of
\* the temporary project.
CandidateDeps(k) == fs[Abs(elmJsonPath(versionDirs[k]))].dependencies

Skeleton == fs[elmJsonPath(templateDir)].dependencies

Merged == fs[elmJsonPath(tempDir)].dependencies

\* The merged elm.json has been written and the temporary directory is there.
ManifestMerged == pc \in {"make", "run", "report", "cleanup"}

Candidates == 1..Len(versions)

\* The order of versions by their meaning: 1.m.0 is newer than 1.n.0 when m > n.
MinorOf(v) == CHOOSE m \in 9..MaxMinor : VersionString(m) = v

Newest(S) == CHOOSE v \in S : \A w \in S : MinorOf(w) <= MinorOf(v)

DirectVersions(pkg) ==
    {CandidateDeps(k).direct[pkg] : k \in {c \in Candidates : Has(CandidateDeps(c).direct, pkg)}}

IndirectVersions(pkg) ==
    {CandidateDeps(k).indirect[pkg] :
        k \in {c \in Candidates : Has(CandidateDeps(c).indirect, pkg)}}

\* C3: the merged manifest has no package in both tiers.
C3_TiersDisjoint ==
    ManifestMerged => DOMAIN Merged.direct \cap DOMAIN Merged.indirect = {}

\* The post-pass had a package to delete: the candidates contribute it to
\* indirect and the merge put it in direct.
C3_Witness ==
    /\ ManifestMerged
    /\ \E pkg \in Packages :
          /\ Has(combinedDependencies.indirect, pkg)
          /\ Has(Merged.direct, pkg)
          /\ ~Has(Merged.indirect, pkg)

\* Package pkg is direct in candidate a and indirect, at a lower version, in
\* candidate b.
DirectAndLowerIndirect(pkg, a, b) ==
    /\ a # b
    /\ Has(CandidateDeps(a).direct, pkg)
    /\ Has(CandidateDeps(b).indirect, pkg)
    /\ MinorOf(CandidateDeps(b).indirect[pkg]) < MinorOf(CandidateDeps(a).direct[pkg])

\* C4 as stated: the merged manifest has the package in direct at a's
\* version, and not in indirect.
C4_DirectAtCandidateVersion ==
    ManifestMerged =>
       \A pkg \in Packages : \A a, b \in Candidates :
          DirectAndLowerIndirect(pkg, a, b) =>
             /\ Has(Merged.direct, pkg)
             /\ Merged.direct[pkg] = CandidateDeps(a).direct[pkg]
             /\ ~Has(Merged.indirect, pkg)

\* C4 amended: the merged manifest has the package in direct and not in
\* indirect; its version is the template's when the template's direct tier
\* pins it, and otherwise the newest of the candidates' direct versions.
C4_DirectWins ==
    ManifestMerged =>
       \A pkg \in Packages : \A a, b \in Candidates :
          DirectAndLowerIndirect(pkg, a, b) =>
             /\ Has(Merged.direct, pkg)
             /\ ~Has(Merged.indirect, pkg)
             /\ Merged.direct[pkg] =
                   IF Has(Skeleton.direct, pkg) THEN Skeleton.direct[pkg]
                   ELSE Newest(DirectVersions(pkg))

C4_Witness ==
    /\ ManifestMerged
    /\ \E pkg \in Packages : \E a, b \in Candidates :
          /\ DirectAndLowerIndirect(pkg, a, b)
          /\ ~Has(Skeleton.direct, pkg)
          /\ Merged.direct[pkg] = CandidateDeps(a).direct[pkg]
          /\ ~Has(Merged.indirect, pkg)

\* Package pkg is in no candidate's direct tier and in the indirect tier of
\* two candidates at least.
OnlyIndirect(pkg) ==
    /\ \A k \in Candidates : ~Has(CandidateDeps(k).direct, pkg)
    /\ \E j, k \in Candidates :
          j # k /\ Has(CandidateDeps(j).indirect, pkg) /\ Has(CandidateDeps(k).indirect, pkg)

\* C5 as stated: the merged indirect entry is the newest candidate version.
C5_IndirectIsNewestCandidate ==
    ManifestMerged =>
       \A pkg \in Packages :
          OnlyIndirect(pkg) =>
             /\ Has(Merged.indirect, pkg)
             /\ Merged.indirect[pkg] = Newest(IndirectVersions(pkg))

\* C5 amended: when the template's direct tier pins the package it is absent
\* from merged indirect; otherwise the merged indirect entry is the newest of
\* the candidates' versions and the template's indirect version, if any.
C5_IndirectIsNewest ==
    ManifestMerged =>
       \A pkg \in Packages :
          OnlyIndirect(pkg) =>
             IF Has(Skeleton.direct, pkg)
             THEN ~Has(Merged.indirect, pkg)
             ELSE /\ Has(Merged.indirect, pkg)
                  /\ Merged.indirect[pkg] =
                        Newest(IndirectVersions(pkg)
                               \cup (IF Has(Skeleton.indirect, pkg)
                                     THEN {Skeleton.indirect[pkg]} ELSE {}))

\* Two candidates have the package in indirect at 1.9.0 and 1.10.0, the
\* template does not have it, and the merge chose 1.10.0.
C5_Witness ==
    /\ ManifestMerged
    /\ \E pkg \in Packages :
          /\ OnlyIndirect(pkg)
          /\ ~Has(Skeleton.direct, pkg)
          /\ ~Has(Skeleton.indirect, pkg)
          /\ IndirectVersions(pkg) = {VersionString(9), VersionString(10)}
          /\ Merged.indirect[pkg] = VersionString(10)

\* ------------------------------------------------------------------ C11, C12
\* C11: when the copy loop rewrites the same file for the same namespace a
\* second time, starting from the file system its first pass left, it writes
\* the text it wrote the first time.
C11_RewriteIdempotent ==
    \A m, n \in 1..Len(writeLog) :
       (/\ m < n
        /\ writeLog[m].file = writeLog[n].file
        /\ Namespace(writeLog[m].version) = Namespace(writeLog[n].version))
       => writeLog[n].content = writeLog[m].content

\* The candidate number k has a src/ directory without the entry module
\* Main.elm: it has no module at all, or modules and no entry.
NoEntryModule(k) ==
    /\ Exists(fs, Abs(srcDirOf(versionDirs[k])))
    /\ ~IsFile(fs, resolve(srcDirOf(versionDirs[k]), MainRel))

\* C12: when a candidate has no module or no entry module the run does not
\* end in success, elm make is never invoked and no file of that candidate
\* is written into the temporary directory.
C12_NoEntryFailsBeforeCompile ==
    \A k \in 1..Len(versionDirs) :
       NoEntryModule(k) =>
          /\ exitCode # 0
          /\ execLog = <<>>
          /\ \A n \in 1..Len(writeLog) :
                writeLog[n].version = k => ~InTempDir(writeLog[n].destPath)

\* ------------------------------------------------------------------ C13
Markers == {"{{FUNCTION_NAME}}", "{{VERSIONS}}", "{{ARGS}}", "{{IMPORTS}}", "{{ARG_DEFS}}"}

\* The text that is meant to stand where the template has the marker.
IntendedCode(marker) ==
    CASE marker = "{{FUNCTION_NAME}}" -> <<functionName>>
      [] marker = "{{VERSIONS}}" -> versionsCode(versionDirs, functionName)
      [] marker = "{{ARGS}}" -> argsCode(args)
      [] marker = "{{IMPORTS}}" -> importsCode(versionDirs)
      [] OTHER -> argDefsCode(args)

\* The template with every marker position holding its intended text.
RECURSIVE Intended(_)
Intended(template) ==
    IF template = <<>> THEN <<>>
    ELSE (IF Head(template) \in Markers THEN IntendedCode(Head(template))
          ELSE <<Head(template)>>)
         \o Intended(Tail(template))

\* The five replacements applied one after the other in a given order.
RECURSIVE ReplacedInOrder(_, _, _)
ReplacedInOrder(text, order, k) ==
    IF k > Len(order) THEN text
    ELSE ReplacedInOrder(replace(text, order[k], IntendedCode(order[k])), order, k + 1)

MarkerOrders ==
    {order \in [1..5 -> Markers] : \A j, k \in 1..5 : j # k => order[j] # order[k]}

\* The driver module has been written into the temporary project.
DriverWritten ==
    /\ pc \notin {"mkdtemp", "synthesize"}
    /\ IsFile(fs, benchmarksElmPath(tempDir))

Driver == fs[benchmarksElmPath(tempDir)].text

\* C13: after the synthesis every marker position of the template holds
\* exactly its intended text and nothing else of the template is changed (so
\* no marker of the template is left), and the five replacements give that
\* same driver in whatever order they are applied.
C13_MarkersSubstituted ==
    DriverWritten =>
       /\ Driver = Intended(BenchmarksTemplate)
       /\ \A order \in MarkerOrders :
             ReplacedInOrder(BenchmarksTemplate, order, 1) = Driver

\* ------------------------------------------------------------------ C14
\* The function names of FunctionNames that are Elm identifiers.
ElmIdentifiers == {"remove"}

\* The tuple list of the driver: what stands between the end of the argument
\* application and the blank lines before the argument definitions.
TupleList ==
    SubSeq(Driver, IndexOf(Driver, ")\n ", 1) + 1, IndexOf(Driver, "\n\n\n", 1) - 1)

\* A tuple list with one entry per candidate, in the order of the command
\* line, the entry number k pairing labels[k] with the function of the
\* candidate's entry module.
TupleListOf(labels) ==
    <<"[ ">>
    \o JoinTexts([k \in 1..Len(versions) |->
                    <<"( \"">> \o labels[k] \o <<"\", ">> \o Namespace(k)
                    \o <<".", functionName, " )">>],
                 <<"\n        , ">>)
    \o <<"\n        ]">>

\* Every printed report line stands at the position of its candidate, is
\* labelled with the candidate's display name and shows the candidate's
\* measurement: the results are not reordered.
ReportMirrorsInput ==
    \A k \in 1..Len(stdout) :
       /\ stdout[k].version = versions[k]
       /\ stdout[k].nsRounded = programResults[k]

FirstMinimum(rs) ==
    CHOOSE k \in 1..Len(rs) :
       /\ \A j \in 1..Len(rs) : rs[k] <= rs[j]
       /\ \A j \in 1..(k - 1) : rs[j] > rs[k]

Emphasized == {k \in 1..Len(stdout) : stdout[k].isFastest}

\* The report has printed its last line.
Reported == pc \in {"cleanup", "done"}

\* C15: a printed line is emphasized exactly when it is the line of the
\* smallest nsPerRun, the first such line on a tie; a complete report has
\* exactly one emphasized line; for 100, 50, 150 it is the second line
\* (index 1 counting from 0).
C15_FastestEmphasized ==
    /\ \A k \in 1..Len(stdout) : stdout[k].isFastest <=> k = FirstMinimum(results)
    /\ Reported => Cardinality(Emphasized) = 1
    /\ (Reported /\ results = <<100, 50, 150>>) => Emphasized = {2}

\* A complete report of 100, 50, 50: the first of the two smallest is the
\* emphasized line.
C15_Witness ==
    /\ Reported
    /\ results = <<100, 50, 50>>
    /\ Emphasized = {2}

\* n = round((nsPerRun / baseline - 1) * 100), without a division:
\* n - 1/2 <= (nsPerRun / baseline - 1) * 100 < n + 1/2.
IsPercentDiff(n, nsPerRun, baseline) ==
    /\ (2 * n - 1) * baseline <= 200 * (nsPerRun - baseline)
    /\ 200 * (nsPerRun - baseline) < (2 * n + 1) * baseline

ComparisonLabel(n) ==
    IF n > 0 THEN <<ToString(n), "% slower">>
    ELSE IF n < 0 THEN <<ToString(0 - n), "% faster">>
    ELSE <<"same speed">>

\* C16: the first printed line is labelled "baseline"; every other printed
\* line of a report with a baseline above 0 is labelled "n% slower", "|n|%
\* faster" or "same speed" for n = round((nsPerRun / baseline - 1) * 100)
\* above, below or equal to 0; with baseline 100, 50 is "50% faster" and 150
\* is "50% slower"; with baseline 316, 254 is "20% faster".
C16_ComparisonLabels ==
    \A k \in 1..Len(stdout) :
       IF k = 1 THEN stdout[k].comparison = <<"baseline">>
       ELSE /\ results[1] > 0 =>
                 \E n \in (0 - 100)..((100 * results[k]) \div results[1]) :
                    /\ IsPercentDiff(n, results[k], results[1])
                    /\ stdout[k].comparison = ComparisonLabel(n)
            /\ (results[1] = 100 /\ results[k] = 50)
                  => stdout[k].comparison = <<"50", "% faster">>
            /\ (results[1] = 100 /\ results[k] = 150)
                  => stdout[k].comparison = <<"50", "% slower">>
            /\ (results[1] = 316 /\ results[k] = 254)
                  => stdout[k].comparison = <<"20", "% faster">>

\* A complete report of 316, 254, 316: baseline, 20% faster, same speed.
C16_Witness ==
    /\ Reported
    /\ results = <<316, 254, 316>>
    /\ stdout[1].comparison = <<"baseline">>
    /\ stdout[2].comparison = <<"20", "% faster">>
    /\ stdout[3].comparison = <<"same speed">>

\* C17: the bar of every printed line has round(nsPerRun / baseline * 20)
\* characters, never fewer than 0 and not capped at 20: with baseline 100,
\* 200 gives 40 and 0 gives 0; the bar of the baseline's own line has 20.
C17_BarLength ==
    \A k \in 1..Len(stdout) :
       /\ stdout[k].bar >= 0
       /\ results[1] > 0 =>
             /\ (2 * stdout[k].bar - 1) * results[1] <= 40 * results[k]
             /\ 40 * results[k] < (2 * stdout[k].bar + 1) * results[1]
       /\ (results[1] = 100 /\ results[k] = 200) => stdout[k].bar = 40
       /\ (results[1] = 100 /\ results[k] = 0) => stdout[k].bar = 0
       /\ k = 1 => stdout[k].bar = 20

\* ------------------------------------------------------------------ C18, C19
\* C18: a package the template's manifest has in direct is in the merged
\* direct tier at the template's version, whatever the candidates contribute,
\* and is not in the merged indirect tier.
C18_SkeletonPinKept ==
    ManifestMerged =>
       \A pkg \in Packages :
          Has(Skeleton.direct, pkg) =>
             /\ Has(Merged.direct, pkg)
             /\ Merged.direct[pkg] = Skeleton.direct[pkg]
             /\ ~Has(Merged.indirect, pkg)

\* The template pins the package at 1.9.0 and the candidates contribute
\* 1.10.0 to direct and to indirect.
C18_Witness ==
    /\ ManifestMerged
    /\ \E pkg \in Packages :
          /\ Has(Skeleton.direct, pkg)
          /\ Skeleton.direct[pkg] = VersionString(9)
          /\ VersionString(10) \in DirectVersions(pkg)
          /\ VersionString(10) \in IndirectVersions(pkg)
          /\ Merged.direct[pkg] = VersionString(9)

\* The template's manifest has the package, no candidate's manifest has it.
ContributedByNone(pkg) == DirectVersions(pkg) = {} /\ IndirectVersions(pkg) = {}

\* A package no candidate contributes is in the merged manifest in the
\* template's tier at the template's version, and in no other tier.
SkeletonKept(pkg) ==
    /\ Has(Skeleton.direct, pkg) =>
          Has(Merged.direct, pkg) /\ Merged.direct[pkg] = Skeleton.direct[pkg]
    /\ Has(Skeleton.indirect, pkg) =>
          Has(Merged.indirect, pkg) /\ Merged.indirect[pkg] = Skeleton.indirect[pkg]
    /\ DOMAIN Merged.direct \cap {pkg} = DOMAIN Skeleton.direct \cap {pkg}
    /\ DOMAIN Merged.indirect \cap {pkg} = DOMAIN Skeleton.indirect \cap {pkg}

\* The template has the package in a tier and does not pin it in direct, so
\* the tier is indirect, and the candidates contribute it to that tier.
SkeletonIndirectContributed(pkg) ==
    /\ Has(Skeleton.indirect, pkg)
    /\ ~Has(Skeleton.direct, pkg)
    /\ IndirectVersions(pkg) # {}

\* C19 as stated: a package of the template's indirect tier that the template
\* does not pin in direct and that candidates contribute to indirect is in
\* the merged indirect tier at the newer of the template's version and the
\* candidates' newest; a package no candidate contributes keeps the
\* template's tier and version.
C19_HigherOfSkeletonAndCandidates ==
    ManifestMerged =>
       \A pkg \in Packages :
          /\ SkeletonIndirectContributed(pkg) =>
                /\ Has(Merged.indirect, pkg)
                /\ Merged.indirect[pkg] =
                      Newest(IndirectVersions(pkg) \cup {Skeleton.indirect[pkg]})
          /\ ContributedByNone(pkg) => SkeletonKept(pkg)

\* C19 amended: that holds when no candidate has the package in direct; when
\* a candidate has it in direct the package is in the merged direct tier at
\* the newest of the candidates' direct versions and is not in the merged
\* indirect tier.
C19_HigherUnlessDirect ==
    ManifestMerged =>
       \A pkg \in Packages :
          /\ SkeletonIndirectContributed(pkg) =>
                IF DirectVersions(pkg) = {}
                THEN /\ Has(Merged.indirect, pkg)
                     /\ Merged.indirect[pkg] =
                           Newest(IndirectVersions(pkg) \cup {Skeleton.indirect[pkg]})
                     /\ ~Has(Merged.direct, pkg)
                ELSE /\ Has(Merged.direct, pkg)
                     /\ Merged.direct[pkg] = Newest(DirectVersions(pkg))
                     /\ ~Has(Merged.indirect, pkg)
          /\ ContributedByNone(pkg) => SkeletonKept(pkg)

\* The template has the package in indirect at 1.9.0, the candidates have it
\* in indirect only, at 1.10.0, and the merge chose 1.10.0.
C19_Witness ==
    /\ ManifestMerged
    /\ \E pkg \in Packages :
          /\ SkeletonIndirectContributed(pkg)
          /\ Skeleton.indirect[pkg] = VersionString(9)
          /\ DirectVersions(pkg) = {}
          /\ IndirectVersions(pkg) = {VersionString(10)}
          /\ Merged.indirect[pkg] = VersionString(10)

\* ------------------------------------------------------------------ C20
\* The stages of the last part of the run, by the statement that runs next:
\* the project is staged when elm make is next, compiled when the program is
\* next, executed and parsed when the report is next, reported after it.
StageOrder ==
    /\ pc = "make" => pc' \in {"run", "failed"}
    /\ pc = "run" => pc' \in {"report", "failed"}
    /\ pc = "report" => pc' \in {"cleanup", "failed"}
    /\ pc' = "run" => pc = "make"
    /\ pc' = "report" => pc = "run" /\ results' = programResults
    /\ pc' = "cleanup" => pc = "report"

\* A failure ends the run: elm make that failed is not followed by a run of
\* the program, and a failed or unparsable run of the program is not followed
\* by a report line.
ShortCircuit ==
    /\ pc # "failed"
    /\ (pc = "make" /\ pc' = "failed") => execLog' = <<"elm make">>
    /\ (pc = "run" /\ pc' = "failed") => stdout' = <<>>

\* C20: the stages are passed in the order staged, compiled, executed,
\* parsed, reported; a failure ends the run, so that the program is never run
\* after a compile failure and no report line is printed after an execution
\* or parse failure; elm make and the program are each invoked at most once,
\* the program only after elm make, and a report line is printed only after
\* the program has run and its output is parsed.
C20_StagesInOrder ==
    /\ [](execLog \in {<<>>, <<"elm make">>, <<"elm make", "node">>})
    /\ []((results # <<>> \/ stdout # <<>>) => execLog = <<"elm make", "node">>)
    /\ [](pc = "failed" => (execLog = <<"elm make">> => results = <<>> /\ stdout = <<>>))
    /\ [][StageOrder /\ ShortCircuit]_vars

\* A run that went through all stages, and so invoked both commands once.
C20_Witness ==
    /\ pc = "done"
    /\ execLog = <<"elm make", "node">>
    /\ Len(stdout) = Len(versions)
    /\ Len(versions) > 1

\* ------------------------------------------------------------------ C21
\* The temporary project is there and its driver module is no longer the
\* template's text.
DriverSynthesized ==
    /\ IsFile(fs, benchmarksElmPath(tempDir))
    /\ Driver # BenchmarksTemplate

\* The copy loop has written a file of every candidate into the temporary
\* project.
IsolatedAll ==
    \A k \in Candidates :
       \E n \in 1..Len(writeLog) :
          writeLog[n].version = k /\ InTempDir(writeLog[n].destPath)

\* Every package of every candidate's manifest is in the manifest of the
\* temporary project.
MergedAll ==
    \A k \in Candidates :
       DOMAIN CandidateDeps(k).direct \cup DOMAIN CandidateDeps(k).indirect
          \subseteq DOMAIN Merged.direct \cup DOMAIN Merged.indirect

\* elm make has been invoked and the temporary project has not been removed.
CompileStarted == execLog # <<>> /\ pc # "done"

\* The compile step starts only after isolation, manifest merge and synthesis
\* have all completed.
CompileAfterAll == CompileStarted => DriverSynthesized /\ IsolatedAll /\ MergedAll

\* C21 as stated: the driver module is synthesized only after every candidate
\* is isolated, and the compile step starts only after isolation, merge and
\* synthesis.
C21_SynthesisAfterIsolation ==
    /\ DriverSynthesized => IsolatedAll
    /\ CompileAfterAll

\* C21 amended: the driver module is synthesized before the first file of a
\* candidate is written, and the compile step starts only after synthesis,
\* isolation of every candidate and manifest merge.
C21_SynthesisBeforeIsolation ==
    /\ (writeLog # <<>> /\ pc # "done") => DriverSynthesized
    /\ (pc = "copy" /\ i = 1) => (DriverSynthesized /\ writeLog = <<>>)
    /\ CompileAfterAll

\* elm make has been invoked for two candidates whose manifests bring a
\* package the template's manifest does not have.
C21_Witness ==
    /\ CompileStarted
    /\ Len(versions) >= 2
    /\ \E k \in Candidates : \E pkg \in Packages :
          /\ Has(CandidateDeps(k).indirect, pkg)
          /\ ~Has(Skeleton.direct, pkg)
          /\ ~Has(Skeleton.indirect, pkg)
          /\ Has(Merged.indirect, pkg)

\* ------------------------------------------------------------------ C22
\* exec of the compiled program has returned.
ProgramRan == execResult # NotRun

\* C22: once the compiled program has run, a zero exit with parsable
\* standard output and non-empty error output does not make the run fail,
\* and a non-zero exit or unparsable standard output does.
C22_ErrorOutputNotFatal ==
    ProgramRan =>
       /\ (execResult.code = 0 /\ execResult.parsable /\ execResult.stderr)
             => (pc # "failed" /\ exitCode # 1)
       /\ (execResult.code # 0 \/ ~execResult.parsable)
             => (pc = "failed" /\ exitCode = 1 /\ stdout = <<>>)

\* ------------------------------------------------------------------ C23
\* Every write of the log goes inside the run's own temporary directory, and
\* every file the run read from a candidate held the text the candidate's
\* author wrote, which is what the run reads when it runs alone: the rewritten
\* text is a function of the text read.
RunsAsAlone(log, ownTempDir) ==
    \A n \in 1..Len(log) :
       /\ Inside(log[n].destPath, ownTempDir)
       /\ log[n].destPath # ownTempDir
       /\ log[n].read = SourceContent(RelOf(log[n]))

\* C23: of two runs at the same time over the same candidate directories,
\* each writes inside its own temporary directory only and each reads, and so
\* writes, what it reads and writes when it runs alone.
C23_RunsIndependent ==
    /\ RunsAsAlone(writeLog, tempDir)
    /\ RunsAsAlone(other.writeLog, tempDirOther)

\* ------------------------------------------------------------------ C24
\* The template's Benchmarks.elm lacks a placeholder the script replaces.
MarkerMissing ==
    \E marker \in Markers :
       IndexOf(fs[benchmarksElmPath(templateDir)].text, marker, 1) = 0

\* C24: with a placeholder missing from the template the run gets no further
\* than the synthesis, where it fails, and elm make is not invoked.
C24_MissingMarkerFails ==
    MarkerMissing =>
       /\ pc \in {"mkdtemp", "synthesize", "failed"}
       /\ execLog = <<>>
       /\ exitCode # 0

\* ------------------------------------------------------------------ C25
\* The module path a declaration line declares: the dotted name after
\* "module".
DeclaredModule(decl) == SubSeq(decl, 3, DottedEnd(decl, 3))

\* C25: two different source files of one candidate are never written to the
\* same destination and never given the same declared module path.
C25_OneEntryModule ==
    \A m, n \in 1..Len(writeLog) :
       (writeLog[m].version = writeLog[n].version /\ writeLog[m].file # writeLog[n].file)
       => /\ writeLog[m].destPath # writeLog[n].destPath
          /\ DeclaredModule(writeLog[m].content.decl)
                # DeclaredModule(writeLog[n].content.decl)

\* ------------------------------------------------------------------ C26
\* C26: once the output of the program is parsed, with one measurement of 0
\* or more per candidate, the run does not fail: the report prints one line
\* per candidate and the run goes on to remove the temporary directory.
C26_ReportCompletes ==
    (execResult.code = 0 /\ execResult.parsable /\ Len(results) = Len(versions)) =>
       /\ pc \in {"report", "cleanup", "done"}
       /\ pc # "report" => Len(stdout) = Len(versions)
       /\ pc = "done" => ~Exists(fs, tempDir)

====
